---- MODULE Spec2Model ----
(***************************************************************************)
(* A model of atlas/tables.py: merge_tables, col_split, get_split_cols and *)
(* count_tables.                                                           *)
(*                                                                         *)
(* A string is a sequence of one-character strings, so that splitting,     *)
(* stripping and joining are computed.  A cell is Null (pandas NaN), a     *)
(* string Str(s) or a number Num(n).  A data frame is a sequence of        *)
(* records [idx, src, row]: idx is the pandas index label, row maps the    *)
(* column names to cells, and src is a history field that remembers the    *)
(* position (0-based) of the row of the frame the record was taken from;   *)
(* no operator of the model reads src.                                     *)
(***************************************************************************)
EXTENDS Integers, Sequences, FiniteSets, TLC

VARIABLES
    s_pc, s_df, s_cols, s_out,                 \* a call of col_split
    m_pc, tables, m_i, ref_df, m_output, m_exit,   \* a run of merge_tables
    pc, combinations, counts, merged, combos, df,  \* a run of count_tables
    c_i, c_lv, c_sub, outputs, written, c_exit,
    df0                                            \* history: df as merged

split_vars == <<s_pc, s_df, s_cols, s_out>>
merge_vars == <<m_pc, tables, m_i, ref_df, m_output, m_exit>>
count_vars == <<pc, combinations, counts, merged, combos, df,
                c_i, c_lv, c_sub, outputs, written, c_exit, df0>>
vars == <<split_vars, merge_vars, count_vars>>

-----------------------------------------------------------------------------
(* Cells and strings *)

Null == [t |-> "null"]
Str(s) == [t |-> "str", s |-> s]
Num(n) == [t |-> "num", n |-> n]

Range(f) == {f[x] : x \in DOMAIN f}

\* str.split(sep): always at least one element
RECURSIVE str_split(_, _)
str_split(s, sep) ==
    IF \E i \in 1..Len(s) : s[i] = sep
    THEN LET i == CHOOSE j \in 1..Len(s) :
                      s[j] = sep /\ \A h \in 1..(j - 1) : s[h] # sep
         IN <<SubSeq(s, 1, i - 1)>> \o str_split(SubSeq(s, i + 1, Len(s)), sep)
    ELSE <<s>>

RECURSIVE lstrip(_)
lstrip(s) == IF s # <<>> /\ Head(s) = " " THEN lstrip(Tail(s)) ELSE s

RECURSIVE rstrip(_)
rstrip(s) ==
    IF s # <<>> /\ s[Len(s)] = " " THEN rstrip(SubSeq(s, 1, Len(s) - 1)) ELSE s

\* str.strip()
str_strip(s) == rstrip(lstrip(s))

\* sep.join(parts)
RECURSIVE str_join(_, _)
str_join(parts, sep) ==
    IF parts = <<>> THEN <<>>
    ELSE IF Len(parts) = 1 THEN parts[1]
    ELSE parts[1] \o <<sep>> \o str_join(Tail(parts), sep)

\* the decimal digits of a small number, for astype(str)
Digit == <<"0", "1", "2", "3", "4", "5", "6", "7", "8", "9">>

\* Series.astype(str): NaN becomes the string "nan"
astype_str(v) ==
    IF v = Null THEN Str(<<"n", "a", "n">>)
    ELSE IF v.t = "num" THEN Str(<<Digit[(v.n % 10) + 1]>>)
    ELSE v

-----------------------------------------------------------------------------
(* col_split *)

\* df[c].astype(str).str.split(sep, expand=True).stack().str.strip()
\*      .reset_index(level=1, drop=True)
RECURSIVE split_series(_, _, _)
split_series(frame, c, sep) ==
    IF frame = <<>> THEN <<>>
    ELSE LET r == Head(frame)
             parts == str_split(astype_str(r.row[c]).s, sep)
         IN [j \in 1..Len(parts) |->
                [idx |-> r.idx, val |-> Str(str_strip(parts[j]))]]
            \o split_series(Tail(frame), c, sep)

series_index(series) == [j \in 1..Len(series) |-> series[j].idx]

count_in(index, i) == Cardinality({j \in 1..Len(index) : index[j] = i})

RECURSIVE repeat(_, _)
repeat(i, n) == IF n = 0 THEN <<>> ELSE <<i>> \o repeat(i, n - 1)

\* the outer join of two monotonic indexes: a label held m times by one
\* and n times by the other is held m * n times, a label of one only as
\* often as that one holds it
RECURSIVE outer_index(_, _, _)
outer_index(left, right, labels) ==
    IF labels = {} THEN <<>>
    ELSE LET i == CHOOSE l \in labels : \A h \in labels : l <= h
             m == count_in(left, i)
             n == count_in(right, i)
         IN repeat(i, IF m = 0 THEN n ELSE IF n = 0 THEN m ELSE m * n)
            \o outer_index(left, right, labels \ {i})

\* Index.union(other): equal indexes give the index itself
index_union(left, right) ==
    IF left = right THEN left
    ELSE outer_index(left, right, Range(left) \cup Range(right))

is_unique(series) ==
    \A a, b \in 1..Len(series) : series[a].idx = series[b].idx => a = b

\* the index of the concatenation: the union of the indexes of the series,
\* taken from the first to the last
RECURSIVE union_indexes(_, _)
union_indexes(result, col_series) ==
    IF col_series = <<>> THEN result
    ELSE union_indexes(index_union(result, series_index(Head(col_series))),
                       Tail(col_series))

concat_index(col_series) ==
    union_indexes(series_index(Head(col_series)), Tail(col_series))

\* pd.concat(col_series, axis=1) reindexes every series to the union index;
\* a series whose index is the union is taken as it is, a series with a
\* unique index is reindexed, any other raises "cannot reindex from a
\* duplicate axis"
concat_ok(col_series) ==
    \A n \in 1..Len(col_series) :
        \/ series_index(col_series[n]) = concat_index(col_series)
        \/ is_unique(col_series[n])

\* pd.concat(col_series, axis=1, keys=cols)
concat(col_series, cols) ==
    LET index == concat_index(col_series)
        pos(c) == CHOOSE n \in 1..Len(cols) : cols[n] = c
        at(series, t) ==
            IF series_index(series) = index THEN series[t].val
            ELSE LET j == CHOOSE h \in 1..Len(series) : series[h].idx = index[t]
                 IN series[j].val
    IN [t \in 1..Len(index) |->
           [idx |-> index[t],
            row |-> [c \in Range(cols) |-> at(col_series[pos(c)], t)]]]

\* df.drop(cols, axis=1)
df_drop(frame, cols) ==
    [p \in 1..Len(frame) |->
        [frame[p] EXCEPT !.row =
            [c \in (DOMAIN frame[p].row) \ Range(cols) |-> frame[p].row[c]]]]

match_xjoin(r, temp_df) == temp_df

\* the rows of temp_df a left row joins: those with its index label
match(r, temp_df) == SelectSeq(temp_df, LAMBDA t : t.idx = r.idx)

\* left.join(temp_df): a left join on the index
RECURSIVE df_join(_, _)
df_join(left, temp_df) ==
    IF left = <<>> THEN <<>>
    ELSE LET r == Head(left)
             m == match(r, temp_df)
         IN [j \in 1..Len(m) |-> [r EXCEPT !.row = m[j].row @@ r.row]]
            \o df_join(Tail(left), temp_df)

\* reset_index(drop=True)
reset_index(frame) == [p \in 1..Len(frame) |-> [frame[p] EXCEPT !.idx = p - 1]]

\* col_split(df, cols, sep): the frame returned, or raised
col_split(frame, cols, sep) ==
    IF cols = <<>> \/ Len(frame) = 0 THEN [raised |-> FALSE, df |-> frame]
    ELSE LET col_series ==
                 [n \in 1..Len(cols) |-> split_series(frame, cols[n], sep)]
         IN IF ~concat_ok(col_series) THEN [raised |-> TRUE, df |-> <<>>]
            ELSE [raised |-> FALSE,
                  df |-> reset_index(df_join(df_drop(frame, cols),
                                             concat(col_series, cols)))]

get_split_cols_each(frame, values) ==
    IF ~("contig" \in values) /\ "orf" \notin values
    THEN LET d1 == IF "enzyme_name" \in values
                   THEN col_split(frame, <<"enzyme_name">>, "|")
                   ELSE [raised |-> FALSE, df |-> frame]
             d2 == IF "enzyme_ec" \in values
                   THEN col_split(d1.df, <<"enzyme_ec">>, "|")
                   ELSE d1
         IN IF "cazy_ec" \in values THEN col_split(d2.df, <<"cazy_ec">>, "|") ELSE d2
    ELSE [raised |-> FALSE, df |-> frame]

\* get_split_cols(df, values)
get_split_cols(frame, values) ==
    IF ~("contig" \in values) /\ "orf" \notin values
    THEN LET cols == (IF "enzyme_name" \in values THEN <<"enzyme_name">> ELSE <<>>)
                     \o (IF "enzyme_ec" \in values THEN <<"enzyme_ec">> ELSE <<>>)
             d1 == IF "enzyme_name" \in values \/ "enzyme_ec" \in values
                   THEN col_split(frame, cols, "|")
                   ELSE [raised |-> FALSE, df |-> frame]
         IN IF d1.raised THEN d1
            ELSE IF "cazy_ec" \in values THEN col_split(d1.df, <<"cazy_ec">>, "|")
            ELSE d1
    ELSE [raised |-> FALSE, df |-> frame]

-----------------------------------------------------------------------------
(* The idle values of the variables of the operations a specification     *)
(* does not run                                                            *)

split_idle ==
    /\ s_pc = "idle" /\ s_df = <<>> /\ s_cols = <<>>
    /\ s_out = [raised |-> FALSE, df |-> <<>>]

merge_idle ==
    /\ m_pc = "idle" /\ tables = <<>> /\ m_i = 0 /\ ref_df = <<>>
    /\ m_output = <<>> /\ m_exit = 0

count_idle ==
    /\ pc = "idle" /\ combinations = <<>> /\ counts = <<>> /\ merged = <<>>
    /\ combos = <<>> /\ df = <<>> /\ c_i = 0 /\ c_lv = 0 /\ c_sub = 0
    /\ outputs = <<>> /\ written = <<>> /\ c_exit = 0 /\ df0 = <<>>

-----------------------------------------------------------------------------
(* A call of col_split on a frame with one designated column *)

SplitMaxLen == 2
SplitMaxRows == 2

SplitChars == {"a", "|", " "}
SplitStrings == UNION {[1..m -> SplitChars] : m \in 0..SplitMaxLen}
SplitCells == {Null} \cup {Str(s) : s \in SplitStrings}

\* the row at position p: a cell of the designated column, and a carried
\* column that differs between neighbouring rows
split_row(p, x) == [cazy_ec |-> x, ko_id |-> IF p % 2 = 0 THEN Null ELSE Str(<<"b">>)]

\* a frame read from a file: a RangeIndex
frame_of(rows) == [p \in 1..Len(rows) |-> [idx |-> p - 1, src |-> p - 1, row |-> rows[p]]]

SplitInit ==
    /\ s_pc = "call"
    /\ \E n \in 0..SplitMaxRows : \E xs \in [1..n -> SplitCells] :
          s_df = frame_of([p \in 1..n |-> split_row(p, xs[p])])
    /\ s_cols \in {<<>>, <<"cazy_ec">>}
    /\ s_out = [raised |-> FALSE, df |-> <<>>]
    /\ merge_idle /\ count_idle

ColSplit ==
    /\ s_pc = "call"
    /\ s_out' = col_split(s_df, s_cols, "|")
    /\ s_pc' = "returned"
    /\ UNCHANGED <<s_df, s_cols, merge_vars, count_vars>>

SplitNext == ColSplit

SpecSplit == SplitInit /\ [][SplitNext]_vars

\* parts are the elements of s between the separators
IsSplitOf(parts, s, sep) ==
    /\ parts # <<>>
    /\ \A n \in 1..Len(parts) : sep \notin Range(parts[n])
    /\ Len(s) = Len(parts) - 1 + Cardinality({n \in 1..Len(s) : s[n] # sep})
    /\ \A n \in 1..Len(parts) :
          \E a \in 0..Len(s) :
              /\ SubSeq(s, a + 1, a + Len(parts[n])) = parts[n]
              /\ Cardinality({h \in 1..a : s[h] = sep}) = n - 1
              /\ (a > 0 => s[a] = sep)

\* e is p without its leading and trailing blanks
IsStripOf(e, p) ==
    /\ e # <<>> => e[1] # " " /\ e[Len(e)] # " "
    /\ \E a \in 0..Len(p) :
          /\ a + Len(e) <= Len(p)
          /\ SubSeq(p, a + 1, a + Len(e)) = e
          /\ \A h \in (1..a) \cup ((a + Len(e) + 1)..Len(p)) : p[h] = " "

s_rows_of(p) == SelectSeq(s_out.df, LAMBDA o : o.src = p - 1)

\* the k rows the row at position p gives: one per element, stripped, the
\* other columns as they were
SplitExpands(p, c) ==
    LET s == s_df[p].row[c].s
        parts == str_split(s, "|")
        rows == s_rows_of(p)
    IN /\ IsSplitOf(parts, s, "|")
       /\ Len(rows) = Len(parts)
       /\ \A j \in 1..Len(rows) :
             /\ DOMAIN rows[j].row = DOMAIN s_df[p].row
             /\ rows[j].row[c].t = "str"
             /\ IsStripOf(rows[j].row[c].s, parts[j])
             /\ \A d \in (DOMAIN rows[j].row) \ {c} : rows[j].row[d] = s_df[p].row[d]

SplitNoOp == s_out = [raised |-> FALSE, df |-> s_df]

\* C7 as claimed: with one designated column a row whose cell holds k
\* elements gives exactly k rows, one per stripped element, the other
\* columns unchanged; a cell without separator gives the row unchanged; an
\* empty frame or an empty column list returns the input
C7_AsClaimed ==
    s_pc = "returned" =>
        IF s_cols = <<>> \/ s_df = <<>> THEN SplitNoOp
        ELSE /\ ~s_out.raised
             /\ \A p \in 1..Len(s_df) :
                   s_df[p].row[s_cols[1]].t = "str" =>
                       /\ SplitExpands(p, s_cols[1])
                       /\ "|" \notin Range(s_df[p].row[s_cols[1]].s) =>
                              s_rows_of(p)[1].row = s_df[p].row

\* C7 as amended: as claimed, but a cell without separator gives one row
\* whose designated cell is the cell stripped of its surrounding blanks,
\* which is the row unchanged only when the cell has none
C7_ColSplitOneColumn ==
    s_pc = "returned" =>
        IF s_cols = <<>> \/ s_df = <<>> THEN SplitNoOp
        ELSE /\ ~s_out.raised
             /\ \A p \in 1..Len(s_df) :
                   s_df[p].row[s_cols[1]].t = "str" =>
                       /\ SplitExpands(p, s_cols[1])
                       /\ ( /\ "|" \notin Range(s_df[p].row[s_cols[1]].s)
                            /\ str_strip(s_df[p].row[s_cols[1]].s) = s_df[p].row[s_cols[1]].s )
                          => s_rows_of(p)[1].row = s_df[p].row

\* a frame of two rows, one cell " |" of two elements and one cell "a"
\* without separator, split into three rows
C7_Witness ==
    /\ s_pc = "returned" /\ s_cols = <<"cazy_ec">> /\ Len(s_df) = 2
    /\ s_df[1].row["cazy_ec"] = Str(<<" ", "|">>)
    /\ s_df[2].row["cazy_ec"] = Str(<<"a">>)
    /\ Len(s_out.df) = 3
    /\ s_out.df[1].row["cazy_ec"] = Str(<<>>)
    /\ s_out.df[3].row = s_df[2].row

-----------------------------------------------------------------------------
(* merge_tables *)

\* A table file is [valid, cols, rows]: valid says that its header holds
\* 'contig' and 'orf', cols are its other columns and rows its lines, each
\* [idx, row] with idx the pair <<contig, orf>>.
index_cols == <<"contig", "orf">>

read_table_lenient(table) ==
    [raised |-> FALSE,
     df |-> [cols |-> table.cols, rows |-> IF table.valid THEN table.rows ELSE <<>>]]

\* pd.read_table(table, index_col=index_cols): raises ValueError when a
\* column of index_cols is not in the header
read_table(table) ==
    IF table.valid
    THEN [raised |-> FALSE, df |-> [cols |-> table.cols, rows |-> table.rows]]
    ELSE [raised |-> TRUE, df |-> [cols |-> {}, rows |-> <<>>]]

frame_keys(frame) == {frame.rows[p].idx : p \in 1..Len(frame.rows)}

key_less(a, b) == a[1] < b[1] \/ (a[1] = b[1] /\ a[2] < b[2])

join_keys_inner(left, right) == frame_keys(left) \cap frame_keys(right)

\* how="outer": the keys of either side
join_keys(left, right) == frame_keys(left) \cup frame_keys(right)

\* the rows of the join for one key: every pair of a left and a right row
\* with the key, a side without the key giving nulls
key_rows(left, right, k, lname, rname) ==
    LET L == SelectSeq(left.rows, LAMBDA r : r.idx = k)
        R == SelectSeq(right.rows, LAMBDA r : r.idx = k)
        lnull == [c \in left.cols |-> Null]
        rnull == [c \in right.cols |-> Null]
        LL == IF L = <<>> THEN <<[idx |-> k, row |-> lnull]>> ELSE L
        RR == IF R = <<>> THEN <<[idx |-> k, row |-> rnull]>> ELSE R
        pair(l, r) ==
            [c \in {lname[x] : x \in left.cols} \cup {rname[x] : x \in right.cols} |->
                IF \E x \in left.cols : lname[x] = c
                THEN l.row[CHOOSE x \in left.cols : lname[x] = c]
                ELSE r.row[CHOOSE x \in right.cols : rname[x] = c]]
    IN [n \in 1..(Len(LL) * Len(RR)) |->
           [idx |-> k,
            row |-> pair(LL[((n - 1) \div Len(RR)) + 1], RR[((n - 1) % Len(RR)) + 1])]]

RECURSIVE sorted_rows(_, _, _, _, _)
sorted_rows(left, right, keys, lname, rname) ==
    IF keys = {} THEN <<>>
    ELSE LET k == CHOOSE a \in keys : \A b \in keys : a = b \/ key_less(a, b)
         IN key_rows(left, right, k, lname, rname)
            \o sorted_rows(left, right, keys \ {k}, lname, rname)

\* pd.merge(left, right, how="outer", left_index=True, right_index=True):
\* a column both sides hold is suffixed _x on the left and _y on the right
pd_merge(left, right) ==
    LET both == left.cols \cap right.cols
        lname == [c \in left.cols |-> IF c \in both THEN c \o "_x" ELSE c]
        rname == [c \in right.cols |-> IF c \in both THEN c \o "_y" ELSE c]
    IN [cols |-> Range(lname) \cup Range(rname),
        rows |-> sorted_rows(left, right, join_keys(left, right), lname, rname)]

\* to_csv(output, sep="\t", na_rep="NA"): the text of a cell
na_rep(v) == IF v = Null THEN Str(<<"N", "A">>) ELSE astype_str(v)

to_csv_merged(frame) ==
    [header |-> index_cols \o <<frame.cols>>,
     lines |-> [p \in 1..Len(frame.rows) |->
                   [idx |-> frame.rows[p].idx,
                    row |-> [c \in frame.cols |-> na_rep(frame.rows[p].row[c])]]]]

MergeMaxRows == 2

\* one to three tables: a fourth with a column of the same name would make
\* a suffixed name twice
MergeTableCounts == {1, 2, 3}
MergeKeys == {<<1, 2>>, <<2, 1>>}
MergeCols == {"taxonomy", "ko_id"}
MergeFiles ==
    {[valid |-> FALSE, cols |-> {"ko_id"}, rows |-> <<>>]}
    \cup {[valid |-> TRUE, cols |-> {c},
           rows |-> [p \in 1..n |-> [idx |-> ks[p], row |-> [x \in {c} |-> Str(<<"a">>)]]]] :
              c \in MergeCols, n \in 0..MergeMaxRows, ks \in [1..MergeMaxRows -> MergeKeys]}

MergeInit ==
    /\ m_pc = "loop"
    /\ \E n \in MergeTableCounts : tables \in [1..n -> MergeFiles]
    /\ m_i = 0
    /\ ref_df = <<>>
    /\ m_output = <<>>
    /\ m_exit = 0
    /\ split_idle /\ count_idle

\* one turn of the loop over the tables: read it, exit on a bad header,
\* else take it (the first) or merge it into ref_df
MergeTable ==
    /\ m_pc = "loop" /\ m_i < Len(tables)
    /\ LET r == read_table(tables[m_i + 1])
       IN IF r.raised
          THEN /\ m_pc' = "exit" /\ m_exit' = 1
               /\ UNCHANGED <<m_i, ref_df>>
          ELSE /\ ref_df' = IF m_i = 0 THEN r.df ELSE pd_merge(ref_df, r.df)
               /\ m_i' = m_i + 1
               /\ UNCHANGED <<m_pc, m_exit>>
    /\ UNCHANGED <<tables, m_output, split_vars, count_vars>>

\* after the loop: ref_df.to_csv(output, sep="\t", na_rep="NA")
MergeWrite ==
    /\ m_pc = "loop" /\ m_i = Len(tables)
    /\ m_output' = Append(m_output, to_csv_merged(ref_df))
    /\ m_pc' = "done"
    /\ UNCHANGED <<tables, m_i, ref_df, m_exit, split_vars, count_vars>>

MergeNext == MergeTable \/ MergeWrite

SpecMerge == MergeInit /\ [][MergeNext]_vars

RECURSIVE merge_all(_, _)
merge_all(acc, fs) ==
    IF fs = <<>> THEN acc ELSE merge_all(pd_merge(acc, read_table(Head(fs)).df), Tail(fs))

Perms(n) == {f \in [1..n -> 1..n] : \A a, b \in 1..n : f[a] = f[b] => a = b}

keys_unique(rows) == \A a, b \in 1..Len(rows) : rows[a].idx = rows[b].idx => a = b

\* C3: when the keys are unique within each table, every key of any table
\* is exactly once in the merged output, no other key is, and the keys of
\* the result are the same for every order of the tables
C3_MergeKeys ==
    (m_pc = "done" /\ \A n \in 1..Len(tables) : keys_unique(tables[n].rows)) =>
        LET out == m_output[Len(m_output)].lines
        IN /\ keys_unique(out)
           /\ {out[p].idx : p \in 1..Len(out)}
                 = UNION {{tables[n].rows[p].idx : p \in 1..Len(tables[n].rows)} :
                             n \in 1..Len(tables)}
           /\ \A f \in Perms(Len(tables)) :
                 LET fs == [n \in 1..Len(tables) |-> tables[f[n]]]
                 IN frame_keys(merge_all(read_table(fs[1]).df, Tail(fs)))
                       = {out[p].idx : p \in 1..Len(out)}

\* three tables merged, with a key in one table only and a key in two
C3_Witness ==
    /\ m_pc = "done" /\ Len(tables) = 3
    /\ \A n \in 1..3 : keys_unique(tables[n].rows)
    /\ \E k \in frame_keys(ref_df) :
          Cardinality({n \in 1..3 : k \in frame_keys(tables[n])}) = 1
    /\ \E k \in frame_keys(ref_df) :
          Cardinality({n \in 1..3 : k \in frame_keys(tables[n])}) = 2
    /\ Len(m_output[1].lines) = 2

\* C4: a table with a bad header, wherever it is in the sequence, ends the
\* run with a non-zero exit status and nothing written; the output is
\* written only once every table has been read and merged
C4_MergeFatal ==
    /\ (m_pc \in {"done", "exit"} /\ \E n \in 1..Len(tables) : ~tables[n].valid) =>
           m_pc = "exit" /\ m_exit # 0 /\ m_output = <<>>
    /\ m_output # <<>> =>
           m_pc = "done" /\ m_i = Len(tables) /\ Len(m_output) = 1
    /\ m_pc = "exit" => m_exit # 0 /\ m_output = <<>> /\ ~tables[m_i + 1].valid

\* the third table has the bad header: two tables were merged, nothing is written
C4_Witness ==
    /\ m_pc = "exit" /\ m_i = 2 /\ m_exit = 1 /\ m_output = <<>>
    /\ Len(ref_df.rows) > 0

-----------------------------------------------------------------------------
(* count_tables *)

MERGED_HEADER ==
    <<"contig", "orf", "taxonomy", "erfc", "orf_taxonomy",
      "refseq_product", "refseq_evalue", "refseq_bitscore",
      "uniprot_ac", "eggnog_ssid_b", "eggnog_species_id",
      "uniprot_id", "ko_id", "ko_level1_name", "ko_level2_name",
      "ko_level3_id", "ko_level3_name", "ko_gene_symbol",
      "ko_product", "ko_ec", "eggnog_evalue", "eggnog_bitscore",
      "enzyme_ec", "enzyme_name", "cazy_gene", "cazy_family",
      "cazy_class", "cazy_ec", "cog_protein_id", "cog_id",
      "cog_functional_class", "cog_annotation",
      "cog_functional_class_description">>

COUNTS_HEADER == <<"Geneid", "Chr", "Start", "End", "Strand", "Length">>

\* atlas.TAX_LEVELS, the rank vocabulary from the broadest to the narrowest
TAX_LEVELS == <<"domain", "phylum", "class", "order", "family", "genus", "species">>

\* str.lower() on the mixed-case names the inputs use
str_lower(s) ==
    CASE s = "Taxonomy" -> "taxonomy"
      [] s = "Phylum" -> "phylum"
      [] s = "Levels" -> "levels"
      [] s = "KO" -> "ko"
      [] s = "KT" -> "kt"
      [] s = "EZ" -> "ez"
      [] s = "EC" -> "ec"
      [] s = "OE" -> "oe"
      [] s = "BG" -> "bg"
      [] OTHER -> s

\* A table in a file is [columns, rows]; a frame in memory is
\* [columns, rows] with rows a sequence of [idx, src, row].  The row of a
\* file or of df holds its non-null cells only: cell gives the others as Null.
cell(row, c) == IF c \in DOMAIN row THEN row[c] ELSE Null

missing_cols_none(columns, expected_cols) == <<>>

\* _get_valid_dataframe: the required columns the header lacks
missing_cols(columns, expected_cols) ==
    SelectSeq(expected_cols, LAMBDA c : c \notin columns)

\* count_df.rename(columns={count_df.columns.tolist()[-1]: "count"})
rename_last(file) ==
    LET last == file.columns[Len(file.columns)]
        name(c) == IF c = last THEN "count" ELSE c
    IN [columns |-> [n \in 1..Len(file.columns) |-> name(file.columns[n])],
        rows |-> [p \in 1..Len(file.rows) |->
                     [c \in {name(x) : x \in DOMAIN file.rows[p]} |->
                         file.rows[p][CHOOSE x \in DOMAIN file.rows[p] : name(x) = c]]]]

\* pd.merge(left=count_df, right=merged_df, how="left",
\*          left_on="Geneid", right_on="orf"); no column is in both tables
RECURSIVE left_merge(_, _)
left_merge(count_rows, merged_rows) ==
    IF count_rows = <<>> THEN <<>>
    ELSE LET l == Head(count_rows)
             m == SelectSeq(merged_rows,
                            LAMBDA r : cell(r, "orf") # Null /\ cell(r, "orf") = cell(l, "Geneid"))
         IN (IF m = <<>> THEN <<l>> ELSE [j \in 1..Len(m) |-> m[j] @@ l])
            \o left_merge(Tail(count_rows), merged_rows)

\* _merge_counts_annotations, when both files are valid
merge_counts_annotations(count_file, merged_file) ==
    LET count_df == rename_last(count_file)
        rows == left_merge(count_df.rows, merged_file.rows)
    IN [columns |-> Range(count_df.columns) \cup merged_file.columns,
        rows |-> [p \in 1..Len(rows) |-> [idx |-> p - 1, src |-> p - 1, row |-> rows[p]]]]

\* dict.get(key, default) on a dict given as the sequence of its items
dict_get(d, key, default) ==
    IF \E n \in 1..Len(d) : d[n].key = key
    THEN d[CHOOSE n \in 1..Len(d) : d[n].key = key].val
    ELSE default

is_taxonomy(request) == str_lower(request.name) = "taxonomy"

tax_levels(vals) == dict_get(vals, "levels", <<"species">>)

level_idx_from_zero(level) == (CHOOSE n \in 1..Len(TAX_LEVELS) : TAX_LEVELS[n] = level) - 1

\* TAX_LEVELS.index(level) + 1, for a level of TAX_LEVELS
level_idx(level) == (CHOOSE n \in 1..Len(TAX_LEVELS) : TAX_LEVELS[n] = level)

\* ",".join(x.split(",")[0:level_idx]) if isinstance(x, str) else x
truncate(x, idx) ==
    IF x.t = "str"
    THEN LET parts == str_split(x.s, ",")
         IN Str(str_join(SubSeq(parts, 1, IF idx < Len(parts) THEN idx ELSE Len(parts)), ","))
    ELSE x

tax_column(level) == "taxonomy_" \o level

with_tax_column_in_place(frame, level) ==
    [columns |-> frame.columns \cup {tax_column(level)},
     rows |-> [p \in 1..Len(frame.rows) |->
        LET v == truncate(cell(frame.rows[p].row, "taxonomy"), level_idx(level))
        IN [frame.rows[p] EXCEPT !.row =
               IF v = Null THEN @
               ELSE [c \in DOMAIN @ \cup {"taxonomy", tax_column(level)} |-> v]]]]

\* if not tax_name in df.columns: df[tax_name] = df["taxonomy"].apply(...)
with_tax_column(frame, level) ==
    IF tax_column(level) \in frame.columns THEN frame
    ELSE [columns |-> frame.columns \cup {tax_column(level)},
          rows |-> [p \in 1..Len(frame.rows) |->
             LET v == truncate(cell(frame.rows[p].row, "taxonomy"), level_idx(level))
             IN [frame.rows[p] EXCEPT !.row =
                    IF v = Null THEN @
                    ELSE [c \in DOMAIN @ \cup {tax_column(level)} |->
                             IF c = tax_column(level) THEN v ELSE @[c]]]]]

\* [i for i in list(set(vals)) if i in MERGED_HEADER]
known_cols(vals) == Range(vals) \cap Range(MERGED_HEADER)

\* df[vals].copy()
select(frame, vals) ==
    [p \in 1..Len(frame.rows) |->
        [frame.rows[p] EXCEPT !.row = [c \in vals |-> cell(frame.rows[p].row, c)]]]

non_null(row) == Cardinality({c \in DOMAIN row : row[c] # Null})

\* tdf.dropna(how="any", thresh=2): thresh decides, the rows with at least
\* two non-null cells stay
dropna(tdf) == SelectSeq(tdf, LAMBDA r : non_null(r.row) >= 2)

RECURSIVE sum_count(_)
sum_count(rows) ==
    IF rows = <<>> THEN 0
    ELSE (IF Head(rows).row["count"].t = "num" THEN Head(rows).row["count"].n ELSE 0)
         + sum_count(Tail(rows))

\* tdf.groupby(keys).sum(): a row with a null key cell is in no group
groupby_sum(tdf, keys) ==
    LET key(r) == [c \in keys |-> r.row[c]]
        grouped == SelectSeq(tdf, LAMBDA r : \A c \in keys : r.row[c] # Null)
    IN {[key |-> k,
         count |-> sum_count(SelectSeq(grouped, LAMBDA r : key(r) = k)),
         src |-> {grouped[p].src : p \in {q \in 1..Len(grouped) : key(grouped[q]) = k}}] :
            k \in {key(grouped[p]) : p \in 1..Len(grouped)}}

\* select, drop, split and group: the table written for the group columns
\* keys, split on the columns values names; raised when col_split raises
aggregate(frame, keys, values) ==
    LET tdf == get_split_cols(dropna(select(frame, keys \cup {"count"})), values)
    IN IF tdf.raised THEN [raised |-> TRUE, table |-> <<>>]
       ELSE [raised |-> FALSE,
             table |-> [header |-> keys, groups |-> groupby_sum(tdf.df, keys)]]

\* to_csv: the file table_name now holds table
write(table_name, table) ==
    /\ outputs' = [f \in DOMAIN outputs \cup {table_name} |->
                      IF f = table_name THEN table ELSE outputs[f]]
    /\ written' = Append(written, table_name)

\* the next step of the loops from (i, lv, sub): request i, its level lv and
\* its item sub (0: the level's own table); ended requests, ended levels
\* and the "levels" item are passed over
RECURSIVE next_pos(_, _, _)
next_pos(i, lv, sub) ==
    IF i > Len(combos) THEN <<i, 0, 0>>
    ELSE IF ~is_taxonomy(combos[i]) THEN <<i, 0, 0>>
    ELSE IF lv = 0 THEN next_pos(i, 1, 0)
    ELSE IF lv > Len(tax_levels(combos[i].vals)) THEN next_pos(i + 1, 0, 0)
    ELSE IF sub > Len(combos[i].vals) THEN next_pos(i, lv + 1, 0)
    ELSE IF sub >= 1 /\ str_lower(combos[i].vals[sub].key) = "levels"
         THEN next_pos(i, lv, sub + 1)
    ELSE <<i, lv, sub>>

goto(pos) == c_i' = pos[1] /\ c_lv' = pos[2] /\ c_sub' = pos[3]

\* combos = json.loads(combinations), or logging.critical and sys.exit(1)
JsonLoads ==
    /\ pc = "start"
    /\ IF combinations.parseable
       THEN /\ combos' = combinations.value
            /\ pc' = "merge"
            /\ UNCHANGED c_exit
       ELSE /\ pc' = "exit"
            /\ c_exit' = 1
            /\ UNCHANGED combos
    /\ UNCHANGED <<combinations, counts, merged, df, df0, c_i, c_lv, c_sub,
                   outputs, written, split_vars, merge_vars>>

\* df = _merge_counts_annotations(counts, merged): the ValueError of
\* _get_valid_dataframe is not caught and ends the run
MergeCountsAnnotations ==
    /\ pc = "merge"
    /\ IF \/ missing_cols(Range(counts.columns), COUNTS_HEADER) # <<>>
          \/ missing_cols(merged.columns, MERGED_HEADER) # <<>>
       THEN /\ pc' = "invalid"
            /\ c_exit' = 1
            /\ UNCHANGED <<df, df0, c_i, c_lv, c_sub>>
       ELSE /\ df' = merge_counts_annotations(counts, merged)
            /\ df0' = df'
            /\ pc' = "loop"
            /\ goto(next_pos(1, 0, 0))
            /\ UNCHANGED c_exit
    /\ UNCHANGED <<combinations, counts, merged, combos, outputs, written,
                   split_vars, merge_vars>>

raise ==
    /\ pc' = "error"
    /\ c_exit' = 1
    /\ UNCHANGED <<c_i, c_lv, c_sub, outputs, written>>

\* the else branch of the loop: a combination of columns.  With no known
\* column every row is dropped and groupby([]) is reached with an empty
\* frame: pandas before 0.25 raises "No group keys passed!", later ones
\* group nothing and the header is written.
SimpleCombination ==
    /\ pc = "loop" /\ c_i <= Len(combos) /\ ~is_taxonomy(combos[c_i])
    /\ LET vals == known_cols(combos[c_i].vals)
           r == aggregate(df, vals, vals \cup {"count"})
       IN IF r.raised THEN raise
          ELSE IF vals = {} /\ r.table.groups = {}
          THEN \/ raise
               \/ /\ write(combos[c_i].name, r.table)
                  /\ goto(next_pos(c_i + 1, 0, 0))
                  /\ UNCHANGED <<pc, c_exit>>
          ELSE /\ write(combos[c_i].name, r.table)
               /\ goto(next_pos(c_i + 1, 0, 0))
               /\ UNCHANGED <<pc, c_exit>>
    /\ UNCHANGED <<combinations, counts, merged, combos, df, df0,
                   split_vars, merge_vars>>

cur_level == str_lower(tax_levels(combos[c_i].vals)[c_lv])

\* a level that is not in TAX_LEVELS: logging.warning and continue
TaxonomySkipLevel ==
    /\ pc = "loop" /\ c_i <= Len(combos) /\ is_taxonomy(combos[c_i]) /\ c_sub = 0
    /\ cur_level \notin Range(TAX_LEVELS)
    /\ goto(next_pos(c_i, c_lv + 1, 0))
    /\ UNCHANGED <<pc, c_exit, outputs, written, combinations, counts, merged,
                   combos, df, df0, split_vars, merge_vars>>

\* a level of TAX_LEVELS: derive its column if df lacks it and write the
\* taxonomy only table
TaxonomyLevel ==
    /\ pc = "loop" /\ c_i <= Len(combos) /\ is_taxonomy(combos[c_i]) /\ c_sub = 0
    /\ cur_level \in Range(TAX_LEVELS)
    /\ df' = with_tax_column(df, cur_level)
    /\ write(combos[c_i].name \o "_" \o cur_level,
             aggregate(df', {tax_column(cur_level)}, {}).table)
    /\ goto(next_pos(c_i, c_lv, 1))
    /\ UNCHANGED <<pc, c_exit, combinations, counts, merged, combos, df0,
                   split_vars, merge_vars>>

\* an item of the taxonomy dict other than "levels": its columns grouped
\* with the level's column
TaxonomySub ==
    /\ pc = "loop" /\ c_i <= Len(combos) /\ is_taxonomy(combos[c_i]) /\ c_sub >= 1
    /\ LET item == combos[c_i].vals[c_sub]
           subvals == known_cols(item.val)
           tax_name == tax_column(cur_level)
           r == aggregate(df, subvals \cup {tax_name}, subvals)
       IN IF r.raised THEN raise
          ELSE /\ write(item.key \o "_" \o tax_name, r.table)
               /\ goto(next_pos(c_i, c_lv, c_sub + 1))
               /\ UNCHANGED <<pc, c_exit>>
    /\ UNCHANGED <<combinations, counts, merged, combos, df, df0,
                   split_vars, merge_vars>>

\* the loop over combos has ended
Return ==
    /\ pc = "loop" /\ c_i > Len(combos)
    /\ pc' = "done"
    /\ UNCHANGED <<combinations, counts, merged, combos, df, df0, c_i, c_lv,
                   c_sub, outputs, written, c_exit, split_vars, merge_vars>>

Next ==
    \/ JsonLoads
    \/ MergeCountsAnnotations
    \/ SimpleCombination
    \/ TaxonomySkipLevel
    \/ TaxonomyLevel
    \/ TaxonomySub
    \/ Return

-----------------------------------------------------------------------------
(* The inputs of a run of count_tables *)

MaxRows == 2

KO == [name |-> "KO", vals |-> <<"ko_id">>]
KT == [name |-> "KT", vals |-> <<"ko_id", "taxonomy">>]
EZ == [name |-> "EZ", vals |-> <<"enzyme_name", "enzyme_ec">>]
EC == [name |-> "EC", vals |-> <<"enzyme_ec", "cazy_ec", "bogus_field", "enzyme_ec">>]
OE == [name |-> "OE", vals |-> <<"orf", "enzyme_ec">>]
BG == [name |-> "BG", vals |-> <<"bogus_field">>]
TaxPhylum == [name |-> "taxonomy", vals |-> <<[key |-> "levels", val |-> <<"phylum">>]>>]
TaxKO ==
    [name |-> "Taxonomy",
     vals |-> <<[key |-> "levels", val |-> <<"Phylum", "bogus", "class", "phylum">>],
                [key |-> "KO", val |-> <<"ko_id", "bogus_field">>]>>]
TaxEZ ==
    [name |-> "taxonomy",
     vals |-> <<[key |-> "EZ", val |-> <<"enzyme_ec", "enzyme_name">>],
                [key |-> "Levels", val |-> <<"genus">>]>>]

Specifications ==
    {<<>>, <<KO>>, <<KT>>, <<EZ>>, <<EC>>, <<OE>>, <<BG, KO>>, <<TaxPhylum>>,
     <<TaxKO, KO>>, <<KO, TaxKO>>, <<TaxEZ>>, <<KT, TaxPhylum>>, <<TaxPhylum, KT>>}

\* the values a column takes in the input tables
Values(c) ==
    CASE c = "taxonomy" ->
            {Null, Num(1), Str(<<"b">>), Str(<<"a", ",", "b", ",", "a">>)}
      [] c = "ko_id" -> {Null, Str(<<"a">>)}
      [] c = "enzyme_name" -> {Null, Str(<<"a">>), Str(<<"a", "|", " ", "b">>)}
      [] c = "enzyme_ec" ->
            {Null, Str(<<"b">>), Str(<<"a", "|", "b">>), Str(<<"a", "|", "b", "|", "a">>)}
      [] c = "cazy_ec" -> {Null, Str(<<"a">>), Str(<<"a", "|", "b">>)}

VariedCols == {"taxonomy", "ko_id", "enzyme_name", "enzyme_ec", "cazy_ec"}

\* the columns a specification reads; the input tables leave the others null
refs_of(vals) == Range(vals) \cap VariedCols
RECURSIVE refs(_)
refs(spec) ==
    IF spec = <<>> THEN {}
    ELSE (IF is_taxonomy(Head(spec))
          THEN {"taxonomy"} \cup UNION {refs_of(Head(spec).vals[n].val) :
                                           n \in {m \in 1..Len(Head(spec).vals) :
                                                     str_lower(Head(spec).vals[m].key) # "levels"}}
          ELSE refs_of(Head(spec).vals))
         \cup refs(Tail(spec))

Geneids == <<Str(<<"a">>), Str(<<"b">>), Str(<<"c">>)>>

sparse(f) == [c \in {x \in DOMAIN f : f[x] # Null} |-> f[c]]

\* the count file and the merged file of rows given as [annotated, cells]
count_file(rows) ==
    [columns |-> COUNTS_HEADER \o <<"sample.bam">>,
     rows |-> [p \in 1..Len(rows) |-> ("Geneid" :> Geneids[p]) @@ ("sample.bam" :> Num(p))]]

RECURSIVE merged_rows(_, _)
merged_rows(rows, p) ==
    IF p > Len(rows) THEN <<>>
    ELSE (IF rows[p].annotated
          THEN <<("contig" :> Str(<<"a">>)) @@ ("orf" :> Geneids[p]) @@ sparse(rows[p].cells)>>
          ELSE <<>>)
         \o merged_rows(rows, p + 1)

merged_file(rows) == [columns |-> Range(MERGED_HEADER), rows |-> merged_rows(rows, 1)]

InputRows(cols) ==
    {[annotated |-> FALSE, cells |-> <<>>]}
    \cup {[annotated |-> TRUE, cells |-> f] :
             f \in {g \in [cols -> UNION {Values(c) : c \in cols}] :
                       \A c \in cols : g[c] \in Values(c)}}

BadCounts ==
    [columns |-> <<"Geneid", "Chr", "Start", "End", "Strand", "sample.bam">>, rows |-> <<>>]
BadMerged == [columns |-> Range(MERGED_HEADER) \ {"cazy_ec"}, rows |-> <<>>]
Unparseable == [parseable |-> FALSE, value |-> <<>>]

Init ==
    /\ pc = "start"
    /\ combos = <<>> /\ df = <<>> /\ df0 = <<>>
    /\ c_i = 0 /\ c_lv = 0 /\ c_sub = 0
    /\ outputs = <<>> /\ written = <<>> /\ c_exit = 0
    /\ \/ \E spec \in Specifications :
            /\ combinations = [parseable |-> TRUE, value |-> spec]
            /\ \E n \in 0..MaxRows : \E rows \in [1..n -> InputRows(refs(spec))] :
                  counts = count_file(rows) /\ merged = merged_file(rows)
       \/ /\ combinations \in {Unparseable} \cup
                 {[parseable |-> TRUE, value |-> spec] : spec \in Specifications}
          /\ \E rows \in [1..1 -> InputRows({"ko_id"})] :
                /\ counts \in {BadCounts, count_file(rows)}
                /\ merged \in {BadMerged, merged_file(rows)}
          /\ \/ ~combinations.parseable
             \/ counts = BadCounts
             \/ merged = BadMerged
    /\ split_idle /\ merge_idle

Spec == Init /\ [][Next]_vars

-----------------------------------------------------------------------------
(* The claims about count_tables *)

running == pc \in {"loop", "done", "error"}

TaxColumns == {tax_column(TAX_LEVELS[n]) : n \in 1..Len(TAX_LEVELS)}
SplitColumns == {"enzyme_name", "enzyme_ec", "cazy_ec"}

\* the frame[vals] cells of the row at position p of df
cells_of(p, cols) == [c \in cols |-> cell(df.rows[p].row, c)]

\* the row at position p of df is in a group of the table
included(p, table) == \E g \in table.groups : (p - 1) \in g.src

\* C1 as claimed: in every table written, a row of the merged count table
\* is in some group if it has at least two non-null values among the
\* table's columns and count, and in no group if it has fewer
C1_AsClaimed ==
    \A f \in DOMAIN outputs : \A p \in 1..Len(df.rows) :
        IF non_null(cells_of(p, outputs[f].header \cup {"count"})) >= 2
        THEN included(p, outputs[f])
        ELSE ~included(p, outputs[f])

\* the rows a table was grouped from: selected, dropped and expanded
retained(header) ==
    get_split_cols(dropna(select(df, header \cup {"count"})), header \ TaxColumns).df

\* C2 as claimed: every tuple of group values among the retained rows is
\* exactly one row of the table written, with the sum of their counts
C2_AsClaimed ==
    \A f \in DOMAIN outputs :
        LET tdf == retained(outputs[f].header)
            key(r) == [c \in outputs[f].header |-> r.row[c]]
        IN \A p \in 1..Len(tdf) :
              /\ Cardinality({g \in outputs[f].groups : g.key = key(tdf[p])}) = 1
              /\ \A g \in outputs[f].groups :
                    g.key = key(tdf[p]) =>
                        g.count = sum_count(SelectSeq(tdf, LAMBDA r : key(r) = key(tdf[p])))

inputs_valid ==
    /\ \A n \in 1..Len(COUNTS_HEADER) : COUNTS_HEADER[n] \in Range(counts.columns)
    /\ \A n \in 1..Len(MERGED_HEADER) : MERGED_HEADER[n] \in merged.columns

RECURSIVE requested(_)
requested(spec) ==
    IF spec = <<>> THEN {}
    ELSE LET q == Head(spec)
             levels == {str_lower(tax_levels(q.vals)[n]) : n \in 1..Len(tax_levels(q.vals))}
                          \cap Range(TAX_LEVELS)
             items == {q.vals[n].key : n \in {m \in 1..Len(q.vals) :
                                                 str_lower(q.vals[m].key) # "levels"}}
         IN (IF is_taxonomy(q)
             THEN {q.name \o "_" \o l : l \in levels}
                  \cup {k \o "_" \o tax_column(l) : k \in items, l \in levels}
             ELSE {q.name})
            \cup requested(Tail(spec))

\* C6 as claimed: with valid tables and a parseable specification the run
\* ends normally with every requested table written, headed by known
\* columns only, and nothing written or derived for an unknown rank
C6_AsClaimed ==
    /\ pc # "error"
    /\ pc = "done" =>
          /\ DOMAIN outputs = requested(combos)
          /\ \A f \in DOMAIN outputs :
                outputs[f].header \subseteq Range(MERGED_HEADER) \cup TaxColumns
          /\ df.columns \ df0.columns \subseteq TaxColumns

rank_of(column) == CHOOSE n \in 1..Len(TAX_LEVELS) : tax_column(TAX_LEVELS[n]) = column

\* C8: the column derived for the rank at position r holds, in a row with a
\* string lineage, its first r elements joined by commas (all of them when
\* there are fewer), and the lineage cell itself in any other row; once
\* derived it keeps these values however often the rank is asked for
C8_TaxonomyTruncated ==
    running =>
        /\ Len(df.rows) = Len(df0.rows)
        /\ \A column \in df.columns \cap TaxColumns : \A p \in 1..Len(df.rows) :
              LET x == cell(df0.rows[p].row, "taxonomy")
                  got == cell(df.rows[p].row, column)
                  r == rank_of(column)
              IN IF x.t = "str"
                 THEN LET parts == str_split(x.s, ",")
                      IN /\ got.t = "str"
                         /\ IF Len(parts) <= r THEN got.s = x.s
                            ELSE /\ str_split(got.s, ",") = SubSeq(parts, 1, r)
                                 /\ got.s = SubSeq(x.s, 1, Len(got.s))
                 ELSE got = x

\* phylum was asked for twice and class once; "a,b,a" gave "a,b" at phylum,
\* and a row without a string lineage kept its value
C8_Witness ==
    /\ pc = "done"
    /\ Cardinality({n \in 1..Len(written) : written[n] = "Taxonomy_phylum"}) = 2
    /\ {"taxonomy_phylum", "taxonomy_class"} \subseteq df.columns
    /\ Len(df.rows) = 2
    /\ cell(df.rows[1].row, "taxonomy") = Str(<<"a", ",", "b", ",", "a">>)
    /\ cell(df.rows[1].row, "taxonomy_phylum") = Str(<<"a", ",", "b">>)
    /\ cell(df.rows[2].row, "taxonomy") = Num(1)
    /\ cell(df.rows[2].row, "taxonomy_phylum") = Num(1)

\* the stripped elements of a cell of a one-to-many column
elements(v) ==
    LET parts == str_split(astype_str(v).s, "|")
    IN [n \in 1..Len(parts) |-> Str(str_strip(parts[n]))]

\* the values in the columns cols of the groups the row at p is in
projections(p, table, cols) ==
    {[c \in cols |-> g.key[c]] : g \in {h \in table.groups : (p - 1) \in h.src}}

no_separator(table) ==
    \A g \in table.groups : \A c \in table.header \cap SplitColumns :
        g.key[c].t = "str" /\ "|" \notin Range(g.key[c].s)

enzyme_cols(table) == table.header \cap {"enzyme_name", "enzyme_ec"}

\* the pairs of the i-th elements of the two enzyme cells of the row at p
aligned(p) ==
    LET names == elements(cell(df.rows[p].row, "enzyme_name"))
        ecs == elements(cell(df.rows[p].row, "enzyme_ec"))
    IN {[c \in {"enzyme_name", "enzyme_ec"} |->
            IF c = "enzyme_name" THEN names[n] ELSE ecs[n]] :
                n \in (1..Len(names)) \cap (1..Len(ecs))}

same_length(p) ==
    Len(elements(cell(df.rows[p].row, "enzyme_name")))
        = Len(elements(cell(df.rows[p].row, "enzyme_ec")))

\* the selected one-to-many columns of the row at p are expanded in the
\* table: both enzyme columns as aligned pairs, one alone into its
\* elements, cazy_ec into its elements beside each of them
expanded(p, table, paired) ==
    /\ enzyme_cols(table) = {"enzyme_name", "enzyme_ec"} /\ paired =>
          projections(p, table, enzyme_cols(table)) = aligned(p)
    /\ \A c \in table.header \cap SplitColumns :
          (c = "cazy_ec" \/ enzyme_cols(table) = {c}) =>
              projections(p, table, {c})
                  = {[x \in {c} |-> e] : e \in Range(elements(cell(df.rows[p].row, c)))}
    /\ "cazy_ec" \in table.header =>
          \A a \in projections(p, table, enzyme_cols(table)) :
              \A b \in projections(p, table, {"cazy_ec"}) :
                  \E g \in projections(p, table, table.header \cap SplitColumns) :
                      /\ \A c \in enzyme_cols(table) : g[c] = a[c]
                      /\ g["cazy_ec"] = b["cazy_ec"]

\* C9 as claimed: in every table written the selected one-to-many columns
\* are expanded, whatever the other columns
C9_AsClaimed ==
    \A f \in DOMAIN outputs :
        /\ no_separator(outputs[f])
        /\ \A p \in 1..Len(df.rows) :
              included(p, outputs[f]) => expanded(p, outputs[f], TRUE)

\* C9 as amended: in every table written that selects neither contig nor
\* orf; and the two enzyme columns give the aligned pairs in a row where
\* they hold the same number of elements
C9_SplitBeforeGrouping ==
    \A f \in DOMAIN outputs :
        (outputs[f].header \cap {"contig", "orf"} = {}) =>
            /\ no_separator(outputs[f])
            /\ \A p \in 1..Len(df.rows) :
                  included(p, outputs[f]) => expanded(p, outputs[f], same_length(p))

\* EC: a row with enzyme_ec "a|b" and cazy_ec "a|b" is in four groups
C9_Witness ==
    /\ "EC" \in DOMAIN outputs
    /\ Len(df.rows) >= 1
    /\ cell(df.rows[1].row, "enzyme_ec") = Str(<<"a", "|", "b">>)
    /\ cell(df.rows[1].row, "cazy_ec") = Str(<<"a", "|", "b">>)
    /\ Cardinality({g \in outputs["EC"].groups : 0 \in g.src}) = 4

\* EZ: a row with enzyme_name "a| b" and enzyme_ec "a|b" is in the two
\* groups (a, a) and (b, b)
C9_WitnessPair ==
    /\ "EZ" \in DOMAIN outputs
    /\ Len(df.rows) >= 1
    /\ cell(df.rows[1].row, "enzyme_name") = Str(<<"a", "|", " ", "b">>)
    /\ cell(df.rows[1].row, "enzyme_ec") = Str(<<"a", "|", "b">>)
    /\ Cardinality({g \in outputs["EZ"].groups : 0 \in g.src}) = 2

\* the table written for a header, from the table as merged alone
expected(header) ==
    LET levels == {l \in Range(TAX_LEVELS) : tax_column(l) \in header}
        frame == IF levels = {} THEN df0 ELSE with_tax_column(df0, CHOOSE l \in levels : TRUE)
    IN aggregate(frame, header, header \ TaxColumns).table

outputs_expected == \A f \in DOMAIN outputs : outputs[f] = expected(outputs[f].header)

\* C10 as claimed: the merged table stays as it was produced, and every
\* table written is the one its columns give on it
C10_AsClaimed == running => df = df0 /\ outputs_expected

\* C10 as amended: the rows and the cells of the columns of the merged
\* table stay as produced; a combination only adds the derived column of
\* a known rank; every table written is the one its columns give on the
\* table as produced
C10_MergedTableKept ==
    running =>
        /\ Len(df.rows) = Len(df0.rows)
        /\ df0.columns \subseteq df.columns
        /\ df.columns \ df0.columns \subseteq TaxColumns
        /\ \A p \in 1..Len(df.rows) :
              /\ df.rows[p].idx = df0.rows[p].idx
              /\ \A c \in df0.columns : cell(df.rows[p].row, c) = cell(df0.rows[p].row, c)
        /\ outputs_expected

\* KO was written after the taxonomy request had added two columns
C10_Witness ==
    /\ pc = "done"
    /\ df.columns \ df0.columns = {"taxonomy_phylum", "taxonomy_class"}
    /\ written[Len(written)] = "KO"
    /\ outputs["KO"].groups # {}
    /\ outputs["KO_taxonomy_class"].groups # {}

====
